---- MODULE Spec2Model ----
(***************************************************************************)
(* Model of nomad_exporter.go: the Exporter's Describe and Collect methods *)
(* over the package-level gauges, called by concurrent goroutines of the   *)
(* Prometheus registry.                                                    *)
(***************************************************************************)
EXTENDS Integers, FiniteSets, Sequences, TLC

(* ------------------------------ bounds -------------------------------- *)

\* Number of goroutines that call Describe and Collect on the one Exporter.
NumCallers == 2
\* Singleton fields of a snapshot range over 0..MaxGauge.
MaxGauge == 1
\* Per-status-code counts of a snapshot range over 1..MaxCount.
MaxCount == 1
\* Collect calls of a run in which the calls and the upstream requests are
\* counted.
MaxCollects == 2
\* Cumulative counts range over 1..MaxTotal in a run that records its
\* snapshots, and such a run has at most MaxSnapshots successful scrapes.
MaxTotal == 2
MaxSnapshots == 2

Callers == 1..NumCallers
\* Status codes Nomad reports in its two maps.
Codes == {"200", "500"}
\* HTTP status codes of the upstream response.
HttpStatus == {199, 200, 299, 300, 503}

(* ------------------------------ data ---------------------------------- *)

\* map[string]float64 over the status codes: a function on a subset of Codes.
CountMaps == UNION {[S -> 1..MaxCount] : S \in SUBSET Codes}

\* The decoded payload.
nomadHealth ==
    [UpTimeSec : 0..MaxGauge,
     StatusCodeCount : CountMaps,
     TotalStatusCodeCount : CountMaps,
     TotalResponseTimeSec : 0..MaxGauge,
     AverageResponseTimeSec : 0..MaxGauge]

\* What client.Get returns: an error, or a response with a status code and a
\* body still to be read, which is the expected JSON or is not.
Responses ==
    {[err |-> TRUE, StatusCode |-> 0, json |-> FALSE]} \cup
    [err : {FALSE}, StatusCode : HttpStatus, json : BOOLEAN]

NoResponse == [err |-> FALSE, StatusCode |-> 0, json |-> FALSE]

\* One response for each way a scrape can end: a failed request, a status that
\* is not 2xx, a 2xx status with a body that does not decode or with one that
\* does.
Outcomes ==
    {[err |-> TRUE, StatusCode |-> 0, json |-> FALSE],
     [err |-> FALSE, StatusCode |-> 503, json |-> TRUE],
     [err |-> FALSE, StatusCode |-> 200, json |-> FALSE],
     [err |-> FALSE, StatusCode |-> 200, json |-> TRUE]}

\* A gauge created by newGauge: id tells apart the gauges created for one
\* family and status code, val is the value last Set.
newGauge(id) == [id |-> id, val |-> 0]

VARIABLES
    nomad_up,
    metric_uptime,
    metric_request_response_time_total,
    metric_request_response_time_avg,
    metric_request_status_count_current,
    metric_request_status_count_total,
    newGaugeCalls,      \* per family and status code, the gauges created so far
    mutex,              \* the caller holding e.mutex, 0 when it is free
    pc,                 \* where each caller is
    resp,               \* the response a caller's scrape got, kept until the
                        \* scrape has set the instruments or Collect has handled
                        \* its error
    scrapeErr,          \* what a caller's scrape returned
    ch,                 \* what a caller's Collect or Describe sent on its channel
    iter,               \* the keys present when a caller's map iteration began
    pre,                \* the instruments as a caller's scrape found them, kept
                        \* until the scrape succeeds or Collect returns
    lastScrape,         \* how the most recently completed scrape ended
    lastData,           \* the payload of the most recent successful scrape
    lastPair,           \* how that payload relates to the one of the successful
                        \* scrape right before it
    crashed,            \* the runtime stopped the process
    collects,           \* the Collect calls that have passed e.mutex.Lock()
    requests,           \* the upstream requests issued
    snapshots,          \* the payloads of the successful scrapes, oldest first
    pending             \* the metrics a caller's Collect sent, until the registry
                        \* that called it has written them out

metrics ==
    <<nomad_up, metric_uptime, metric_request_response_time_total,
      metric_request_response_time_avg, metric_request_status_count_current,
      metric_request_status_count_total>>

vars ==
    <<nomad_up, metric_uptime, metric_request_response_time_total,
      metric_request_response_time_avg, metric_request_status_count_current,
      metric_request_status_count_total, newGaugeCalls, mutex, pc, resp,
      scrapeErr, ch, iter, pre, lastScrape, lastData, lastPair, crashed,
      collects, requests, snapshots, pending>>

\* All instruments as one value.
Instruments ==
    [up |-> nomad_up,
     uptime |-> metric_uptime,
     rt_total |-> metric_request_response_time_total,
     rt_avg |-> metric_request_response_time_avg,
     current |-> metric_request_status_count_current,
     total |-> metric_request_status_count_total]

NoInstruments == [up |-> 0, uptime |-> 0, rt_total |-> 0, rt_avg |-> 0,
                  current |-> <<>>, total |-> <<>>]

EmptyCh == [n |-> 0, items |-> {}]

(* ------------------------ channel items ------------------------------- *)

\* A metric sent by Collect: the gauge (its name, label and identity) and the
\* value it holds when sent.
Metric(name, statusCode, g) ==
    [name |-> name, statusCode |-> statusCode, id |-> g.id, val |-> g.val]

StaticMetric(name, v) == Metric(name, "", [id |-> 0, val |-> v])

\* A descriptor sent by Describe.
Desc(name, statusCode) == [name |-> name, statusCode |-> statusCode]

\* As StaticDescs, without the descriptor of nomad_up.
StaticDescsNoUp ==
    {Desc("uptime", ""), Desc("request_response_time_total", ""),
     Desc("request_response_time_avg", "")}

\* The descriptors of the four static gauges.
StaticDescs ==
    {Desc("uptime", ""), Desc("up", ""), Desc("request_response_time_total", ""),
     Desc("request_response_time_avg", "")}

FamilyDescs(name, keys) == {Desc(name, c) : c \in keys}

FamilyMetrics(name, m) == {Metric(name, c, m[c]) : c \in DOMAIN m}

Send(c, items) == [n |-> c.n + Cardinality(items), items |-> c.items \cup items]

(* ------------------------------ init ---------------------------------- *)

Init ==
    /\ nomad_up = 0
    /\ metric_uptime = 0
    /\ metric_request_response_time_total = 0
    /\ metric_request_response_time_avg = 0
    /\ metric_request_status_count_current = <<>>
    /\ metric_request_status_count_total = <<>>
    /\ newGaugeCalls = [f \in {"current", "total"} |-> [c \in Codes |-> 0]]
    /\ mutex = 0
    /\ pc = [p \in Callers |-> "idle"]
    /\ resp = [p \in Callers |-> NoResponse]
    /\ scrapeErr = [p \in Callers |-> "nil"]
    /\ ch = [p \in Callers |-> EmptyCh]
    /\ iter = [p \in Callers |-> {}]
    /\ pre = [p \in Callers |-> NoInstruments]
    /\ lastScrape = "none"
    /\ lastData = <<>>
    /\ lastPair = "none"
    /\ crashed = FALSE
    /\ collects = 0
    /\ requests = 0
    /\ snapshots = <<>>
    /\ pending = [p \in Callers |-> {}]

(* ------------------------------ scrape -------------------------------- *)

\* The fields of the JSON object scrape decodes.
Fields ==
    {"uptime_sec", "status_code_count", "total_status_code_count",
     "total_response_time_sec", "average_response_time_sec"}

ZeroHealth ==
    [UpTimeSec |-> 0, StatusCodeCount |-> <<>>, TotalStatusCodeCount |-> <<>>,
     TotalResponseTimeSec |-> 0, AverageResponseTimeSec |-> 0]

\* As Decode, with MaxGauge for the uptime of an object that lacks uptime_sec.
DecodeDefaultUptime(body) ==
    [UpTimeSec |->
        IF "uptime_sec" \in body.fields THEN body.vals.UpTimeSec ELSE MaxGauge,
     StatusCodeCount |->
        IF "status_code_count" \in body.fields
        THEN body.vals.StatusCodeCount ELSE <<>>,
     TotalStatusCodeCount |->
        IF "total_status_code_count" \in body.fields
        THEN body.vals.TotalStatusCodeCount ELSE <<>>,
     TotalResponseTimeSec |->
        IF "total_response_time_sec" \in body.fields
        THEN body.vals.TotalResponseTimeSec ELSE 0,
     AverageResponseTimeSec |->
        IF "average_response_time_sec" \in body.fields
        THEN body.vals.AverageResponseTimeSec ELSE 0]

\* json.Decoder.Decode into a zero nomadHealth: a field the object lacks keeps
\* its zero value.
Decode(body) ==
    [UpTimeSec |->
        IF "uptime_sec" \in body.fields THEN body.vals.UpTimeSec ELSE 0,
     StatusCodeCount |->
        IF "status_code_count" \in body.fields
        THEN body.vals.StatusCodeCount ELSE <<>>,
     TotalStatusCodeCount |->
        IF "total_status_code_count" \in body.fields
        THEN body.vals.TotalStatusCodeCount ELSE <<>>,
     TotalResponseTimeSec |->
        IF "total_response_time_sec" \in body.fields
        THEN body.vals.TotalResponseTimeSec ELSE 0,
     AverageResponseTimeSec |->
        IF "average_response_time_sec" \in body.fields
        THEN body.vals.AverageResponseTimeSec ELSE 0]

\* The response bodies: text that is not the expected JSON, or a JSON object
\* with some of the fields.
Bodies ==
    {[json |-> FALSE, fields |-> {}, vals |-> ZeroHealth]} \cup
    {b \in [json : {TRUE}, fields : SUBSET Fields, vals : nomadHealth] :
        Decode(b) = b.vals}

\* As IsSuccessStatus, with 300 taken for a success.
IsSuccessStatusUpTo300(code) == code >= 200 /\ code <= 300

\* resp.StatusCode >= 200 && resp.StatusCode < 300
IsSuccessStatus(code) == code >= 200 /\ code < 300

\* What scrape returns once client.Get has returned r: an error for a failed
\* request or a status that is not 2xx, nothing yet otherwise.
statusError(r) ==
    IF r.err THEN "Transport"
    ELSE IF ~IsSuccessStatus(r.StatusCode) THEN "BadStatus"
    ELSE "nil"

\* What scrape returns once it has read the body: an error if it does not
\* decode.
decodeError(body) == IF ~body.json THEN "Decode" ELSE "nil"

\* Every payload a body of B decodes to.
Payloads(B) == {Decode(b) : b \in {x \in B : x.json}}

\* Every payload.
AllPayloads == Payloads(Bodies)

\* The bodies with no singleton field and counts of 1 only.
MapBodies ==
    {b \in Bodies :
        /\ b.fields \subseteq {"status_code_count", "total_status_code_count"}
        /\ \A c \in DOMAIN b.vals.StatusCodeCount : b.vals.StatusCodeCount[c] = 1
        /\ \A c \in DOMAIN b.vals.TotalStatusCodeCount :
              b.vals.TotalStatusCodeCount[c] = 1}

MapPayloads == Payloads(MapBodies)

\* map[string]float64 with counts up to MaxTotal.
TotalMaps == UNION {[S -> 1..MaxTotal] : S \in SUBSET Codes}

\* The payloads of the bodies that have the two maps and no singleton field,
\* with cumulative counts up to MaxTotal.
CountPayloads ==
    {Decode([json |-> TRUE,
             fields |-> {"status_code_count", "total_status_code_count"},
             vals |-> [ZeroHealth EXCEPT !.StatusCodeCount = a,
                                         !.TotalStatusCodeCount = b]]) :
        a \in CountMaps, b \in TotalMaps}

\* How the payload of a successful scrape relates to the one before it, when
\* that scrape succeeded too and no scrape ran in between.
Pair(last, prev, data) ==
    IF last # "ok" THEN "none"
    ELSE IF prev[1] = data THEN "same"
    ELSE IF /\ DOMAIN prev[1].StatusCodeCount # {}
            /\ DOMAIN prev[1].TotalStatusCodeCount # {}
            /\ DOMAIN data.StatusCodeCount # {}
            /\ DOMAIN prev[1].StatusCodeCount \cap DOMAIN data.StatusCodeCount = {}
            /\ DOMAIN prev[1].TotalStatusCodeCount
                   \cap DOMAIN data.TotalStatusCodeCount = {}
         THEN "disjoint"
    ELSE "other"

\* The bodies that do not decode.
Undecodable == {b : b \in {x \in Bodies : ~x.json}}

\* As GaugeSet, with Add in place of Set.
GaugeAdd(g, v) == [g EXCEPT !.val = g.val + v]

\* gauge.Set(v)
GaugeSet(g, v) == [g EXCEPT !.val = v]

\* As SetCounts, setting a gauge only when it is created.
SetCountsOnce(m, counts, calls) ==
    [c \in DOMAIN m \cup DOMAIN counts |->
        IF c \in DOMAIN m THEN m[c]
        ELSE [id |-> calls[c] + 1, val |-> counts[c]]]

\* As ResetCurrent, without the reset loop.
NoResetCurrent(m) == m

\* for _, metric := range metric_request_status_count_current { metric.Set(0) }
ResetCurrent(m) == [c \in DOMAIN m |-> GaugeSet(m[c], 0)]

\* As NeedsGauge, without the lookup: a gauge is created every time.
AlwaysNeedsGauge(m, statusCode) == TRUE

\* if _, ok := m[statusCode]; ok == false
NeedsGauge(m, statusCode) == statusCode \notin DOMAIN m

\* for statusCode, nbr := range counts: create the gauge if there is none,
\* then set it.
SetCounts(m, counts, calls) ==
    [c \in DOMAIN m \cup DOMAIN counts |->
        IF c \in DOMAIN counts
        THEN GaugeSet(IF NeedsGauge(m, c) THEN newGauge(calls[c] + 1) ELSE m[c],
                      counts[c])
        ELSE m[c]]

\* The newGauge calls of that loop.
CountCalls(m, counts, calls) ==
    [c \in Codes |->
        IF c \in DOMAIN counts /\ NeedsGauge(m, c) THEN calls[c] + 1 ELSE calls[c]]

\* As ScrapeSuccess, with a cumulative-count gauge for the codes of
\* status_code_count as well.
ScrapeSuccessOneKeySet(inst, data, calls) ==
    [up |-> 1,
     uptime |-> data.UpTimeSec,
     rt_total |-> data.TotalResponseTimeSec,
     rt_avg |-> data.AverageResponseTimeSec,
     current |-> SetCounts(ResetCurrent(inst.current), data.StatusCodeCount,
                           calls.current),
     total |-> SetCounts(SetCounts(inst.total, data.StatusCodeCount, calls.total),
                         data.TotalStatusCodeCount, calls.total)]

\* As ScrapeSuccess, with the two response-time fields taken for each other.
ScrapeSuccessSwapped(inst, data, calls) ==
    [up |-> 1,
     uptime |-> data.UpTimeSec,
     rt_total |-> data.AverageResponseTimeSec,
     rt_avg |-> data.TotalResponseTimeSec,
     current |-> SetCounts(ResetCurrent(inst.current), data.StatusCodeCount,
                           calls.current),
     total |-> SetCounts(inst.total, data.TotalStatusCodeCount, calls.total)]

\* The instruments after the assignments of a scrape that decoded data.
ScrapeSuccess(inst, data, calls) ==
    [up |-> 1,
     uptime |-> data.UpTimeSec,
     rt_total |-> data.TotalResponseTimeSec,
     rt_avg |-> data.AverageResponseTimeSec,
     current |-> SetCounts(ResetCurrent(inst.current), data.StatusCodeCount,
                           calls.current),
     total |-> SetCounts(inst.total, data.TotalStatusCodeCount, calls.total)]

\* As CollectError, resetting the current counts as a scrape does.
CollectErrorReset(inst) ==
    [inst EXCEPT !.up = 0, !.current = ResetCurrent(inst.current)]

\* As CollectError, without nomad_up.Set(0).
CollectErrorKeepUp(inst) == inst

\* The instruments after Collect's error branch.
CollectError(inst) == [inst EXCEPT !.up = 0]

\* As ErrorMetrics, without the return: the other singletons are sent too.
ErrorMetricsAll(inst) ==
    {StaticMetric("up", inst.up), StaticMetric("uptime", inst.uptime),
     StaticMetric("request_response_time_total", inst.rt_total),
     StaticMetric("request_response_time_avg", inst.rt_avg)}

\* What Collect sends in its error branch.
ErrorMetrics(inst) == {StaticMetric("up", inst.up)}

\* What Collect sends after a successful scrape.
SuccessMetrics(inst) ==
    {StaticMetric("up", inst.up), StaticMetric("uptime", inst.uptime),
     StaticMetric("request_response_time_total", inst.rt_total),
     StaticMetric("request_response_time_avg", inst.rt_avg)}
    \cup FamilyMetrics("request_count_current", inst.current)
    \cup FamilyMetrics("request_count_total", inst.total)

SetInstruments(inst) ==
    /\ nomad_up' = inst.up
    /\ metric_uptime' = inst.uptime
    /\ metric_request_response_time_total' = inst.rt_total
    /\ metric_request_response_time_avg' = inst.rt_avg
    /\ metric_request_status_count_current' = inst.current
    /\ metric_request_status_count_total' = inst.total

(* ------------------------------ Collect ------------------------------- *)

\* As CanLock, with no mutual exclusion.
CanAlwaysLock(m) == TRUE

\* sync.Mutex: Lock returns only when nobody holds the mutex.
CanLock(m) == m = 0

\* Collect is called and reaches e.mutex.Lock().
CollectCall(p) ==
    /\ ~crashed
    /\ pc[p] = "idle"
    /\ pc' = [pc EXCEPT ![p] = "lock"]
    /\ ch' = [ch EXCEPT ![p] = EmptyCh]
    /\ UNCHANGED <<metrics, newGaugeCalls, mutex, resp, scrapeErr, iter, pre,
                   lastScrape, lastData, lastPair, crashed>>

\* e.mutex.Lock() returns.
Lock(p) ==
    /\ ~crashed
    /\ pc[p] = "lock"
    /\ CanLock(mutex)
    /\ mutex' = p
    /\ pc' = [pc EXCEPT ![p] = "get"]
    /\ UNCHANGED <<metrics, newGaugeCalls, resp, scrapeErr, ch, iter, pre,
                   lastScrape, lastData, lastPair, crashed>>

\* scrape: e.client.Get(e.URI) returns a response or an error.
Get(p) ==
    /\ ~crashed
    /\ pc[p] = "get"
    /\ \E r \in Responses : resp' = [resp EXCEPT ![p] = r]
    /\ pre' = [pre EXCEPT ![p] = Instruments]
    /\ pc' = [pc EXCEPT ![p] = "status"]
    /\ UNCHANGED <<metrics, newGaugeCalls, mutex, scrapeErr, ch, iter,
                   lastScrape, lastData, lastPair, crashed>>

\* scrape returns an error before it reads the body: the Get failed or the
\* status is not 2xx.
ScrapeStatusFail(p) ==
    /\ ~crashed
    /\ pc[p] = "status"
    /\ statusError(resp[p]) # "nil"
    /\ scrapeErr' = [scrapeErr EXCEPT ![p] = statusError(resp[p])]
    /\ lastScrape' = "failed"
    /\ pc' = [pc EXCEPT ![p] = "failed"]
    /\ UNCHANGED <<metrics, newGaugeCalls, mutex, resp, ch, iter, pre, lastData,
                   lastPair, crashed>>

\* The status is 2xx: scrape goes on to decode the body.
ScrapeStatusOk(p) ==
    /\ ~crashed
    /\ pc[p] = "status"
    /\ statusError(resp[p]) = "nil"
    /\ pc' = [pc EXCEPT ![p] = "decode"]
    /\ UNCHANGED <<metrics, newGaugeCalls, mutex, resp, scrapeErr, ch, iter, pre,
                   lastScrape, lastData, lastPair, crashed>>

\* scrape returns an error: the body does not decode.
ScrapeDecodeFail(p) ==
    /\ ~crashed
    /\ pc[p] = "decode"
    /\ ~resp[p].json
    /\ \E body \in Undecodable :
        /\ decodeError(body) # "nil"
        /\ scrapeErr' = [scrapeErr EXCEPT ![p] = decodeError(body)]
    /\ lastScrape' = "failed"
    /\ pc' = [pc EXCEPT ![p] = "failed"]
    /\ UNCHANGED <<metrics, newGaugeCalls, mutex, resp, ch, iter, pre, lastData,
                   lastPair, crashed>>

\* As CollectDown, with the scrape tried again in place of the return.
CollectDownRetry(p) ==
    /\ ~crashed
    /\ pc[p] = "failed"
    /\ SetInstruments(CollectError(Instruments))
    /\ resp' = [resp EXCEPT ![p] = NoResponse]
    /\ pc' = [pc EXCEPT ![p] = "get"]
    /\ UNCHANGED <<newGaugeCalls, mutex, scrapeErr, ch, iter, pre, lastScrape,
                   lastData, lastPair, crashed>>

\* Collect's error branch: nomad_up.Set(0); ch <- nomad_up; return.
CollectDown(p) ==
    /\ ~crashed
    /\ pc[p] = "failed"
    /\ SetInstruments(CollectError(Instruments))
    /\ ch' = [ch EXCEPT ![p] = Send(ch[p], ErrorMetrics(CollectError(Instruments)))]
    /\ resp' = [resp EXCEPT ![p] = NoResponse]
    /\ pc' = [pc EXCEPT ![p] = "ret"]
    /\ UNCHANGED <<newGaugeCalls, mutex, scrapeErr, iter, pre, lastScrape,
                   lastData, lastPair, crashed>>

\* A Describe that is iterating the map a scrape inserts into.
Iterating(m, m2) ==
    \/ DOMAIN m2.current # DOMAIN m.current /\ \E q \in Callers : pc[q] = "descCurrent"
    \/ DOMAIN m2.total # DOMAIN m.total /\ \E q \in Callers : pc[q] = "descTotal"

\* scrape decodes the body into data and sets the instruments. history tells
\* whether lastData and lastPair record the payload.
ScrapeOk(p, D, history) ==
    /\ ~crashed
    /\ pc[p] = "decode"
    /\ resp[p].json
    /\ \E data \in D :
           LET after == ScrapeSuccess(Instruments, data, newGaugeCalls)
           IN /\ SetInstruments(after)
              /\ newGaugeCalls' =
                    [current |-> CountCalls(metric_request_status_count_current,
                                            data.StatusCodeCount,
                                            newGaugeCalls.current),
                     total |-> CountCalls(metric_request_status_count_total,
                                          data.TotalStatusCodeCount,
                                          newGaugeCalls.total)]
              /\ lastData' = IF history THEN <<data>> ELSE lastData
              /\ lastPair' = IF history THEN Pair(lastScrape, lastData, data)
                             ELSE lastPair
    /\ scrapeErr' = [scrapeErr EXCEPT ![p] = "nil"]
    /\ lastScrape' = "ok"
    /\ resp' = [resp EXCEPT ![p] = NoResponse]
    /\ pre' = [pre EXCEPT ![p] = NoInstruments]
    /\ pc' = [pc EXCEPT ![p] = "scraped"]
    /\ UNCHANGED <<mutex, ch, iter, crashed>>

\* A map insertion of scrape runs while a Describe iterates that map: the Go
\* runtime may detect it ("concurrent map iteration and map write") and stop
\* the process.
MapFault(p, D) ==
    /\ ~crashed
    /\ pc[p] = "decode"
    /\ resp[p].json
    /\ \E data \in D :
        Iterating(Instruments, ScrapeSuccess(Instruments, data, newGaugeCalls))
    /\ crashed' = TRUE
    /\ UNCHANGED <<metrics, newGaugeCalls, mutex, pc, resp, scrapeErr, ch, iter,
                   pre, lastScrape, lastData, lastPair>>

\* Collect sends every instrument after a successful scrape.
CollectSend(p) ==
    /\ ~crashed
    /\ pc[p] = "scraped"
    /\ ch' = [ch EXCEPT ![p] = Send(ch[p], SuccessMetrics(Instruments))]
    /\ pc' = [pc EXCEPT ![p] = "ret"]
    /\ UNCHANGED <<metrics, newGaugeCalls, mutex, resp, scrapeErr, iter, pre,
                   lastScrape, lastData, lastPair, crashed>>

\* defer e.mutex.Unlock(): Collect returns.
Unlock(p) ==
    /\ ~crashed
    /\ pc[p] = "ret"
    /\ mutex' = 0
    /\ pc' = [pc EXCEPT ![p] = "idle"]
    /\ scrapeErr' = [scrapeErr EXCEPT ![p] = "nil"]
    /\ pre' = [pre EXCEPT ![p] = NoInstruments]
    /\ ch' = [ch EXCEPT ![p] = EmptyCh]
    /\ UNCHANGED <<metrics, newGaugeCalls, resp, iter, lastScrape, lastData, lastPair,
                   crashed>>

(* ------------------------------ Describe ------------------------------ *)

\* The keys a range over a map yields: every key that is there from the start
\* of the loop to its end; a key inserted meanwhile may be yielded or not.
RangeKeys(atStart, now) == {K \in SUBSET now : atStart \cap now \subseteq K}

\* Describe sends the four static descriptors and starts to range over the
\* current-count map. It does not take the mutex.
DescribeCall(p) ==
    /\ ~crashed
    /\ pc[p] = "idle"
    /\ ch' = [ch EXCEPT ![p] = Send(EmptyCh, StaticDescs)]
    /\ iter' = [iter EXCEPT ![p] = DOMAIN metric_request_status_count_current]
    /\ pc' = [pc EXCEPT ![p] = "descCurrent"]
    /\ UNCHANGED <<metrics, newGaugeCalls, mutex, resp, scrapeErr, pre,
                   lastScrape, lastData, lastPair, crashed>>

\* The range over the current-count map ends, the one over the total-count map
\* starts.
DescribeCurrent(p) ==
    /\ ~crashed
    /\ pc[p] = "descCurrent"
    /\ \E K \in RangeKeys(iter[p], DOMAIN metric_request_status_count_current) :
        ch' = [ch EXCEPT ![p] = Send(ch[p], FamilyDescs("request_count_current", K))]
    /\ iter' = [iter EXCEPT ![p] = DOMAIN metric_request_status_count_total]
    /\ pc' = [pc EXCEPT ![p] = "descTotal"]
    /\ UNCHANGED <<metrics, newGaugeCalls, mutex, resp, scrapeErr, pre,
                   lastScrape, lastData, lastPair, crashed>>

\* The range over the total-count map ends.
DescribeTotal(p) ==
    /\ ~crashed
    /\ pc[p] = "descTotal"
    /\ \E K \in RangeKeys(iter[p], DOMAIN metric_request_status_count_total) :
        ch' = [ch EXCEPT ![p] = Send(ch[p], FamilyDescs("request_count_total", K))]
    /\ iter' = [iter EXCEPT ![p] = {}]
    /\ pc' = [pc EXCEPT ![p] = "descRet"]
    /\ UNCHANGED <<metrics, newGaugeCalls, mutex, resp, scrapeErr, pre,
                   lastScrape, lastData, lastPair, crashed>>

\* Describe returns.
DescribeReturn(p) ==
    /\ ~crashed
    /\ pc[p] = "descRet"
    /\ ch' = [ch EXCEPT ![p] = EmptyCh]
    /\ pc' = [pc EXCEPT ![p] = "idle"]
    /\ UNCHANGED <<metrics, newGaugeCalls, mutex, resp, scrapeErr, iter, pre,
                   lastScrape, lastData, lastPair, crashed>>

(* --------------------------- specification ---------------------------- *)

\* Concurrent callers; the responses are those of Outcomes, the payloads carry
\* the two maps and are not recorded, the calls and requests are not counted.
Next ==
    /\ \E p \in Callers :
           \/ CollectCall(p)
           \/ Lock(p)
           \/ Get(p) /\ resp'[p] \in Outcomes
           \/ ScrapeStatusFail(p)
           \/ ScrapeStatusOk(p)
           \/ ScrapeDecodeFail(p)
           \/ CollectDown(p)
           \/ ScrapeOk(p, MapPayloads, FALSE)
           \/ MapFault(p, MapPayloads)
           \/ CollectSend(p)
           \/ Unlock(p)
           \/ DescribeCall(p)
           \/ DescribeCurrent(p)
           \/ DescribeTotal(p)
           \/ DescribeReturn(p)
    /\ UNCHANGED <<collects, requests, snapshots, pending>>

Spec == Init /\ [][Next]_vars

\* The steps of a Collect that holds the mutex, from the upstream request to
\* the deferred Unlock.
CollectStep(p) ==
    /\ \/ Get(p) /\ resp'[p] \in Outcomes
       \/ ScrapeStatusFail(p)
       \/ ScrapeStatusOk(p)
       \/ ScrapeDecodeFail(p)
       \/ CollectDown(p)
       \/ ScrapeOk(p, MapPayloads, FALSE)
       \/ CollectSend(p)
       \/ Unlock(p)
    /\ UNCHANGED <<collects, requests, snapshots, pending>>

\* e.mutex.Lock() returns for p.
LockStep(p) == Lock(p) /\ UNCHANGED <<collects, requests, snapshots, pending>>

\* The steps of a Describe that has been called.
DescribeStep(p) ==
    /\ \/ DescribeCurrent(p)
       \/ DescribeTotal(p)
       \/ DescribeReturn(p)
    /\ UNCHANGED <<collects, requests, snapshots, pending>>

\* Every goroutine that can run does run, every upstream request returns, and
\* a goroutine blocked in Lock gets the mutex if it is released again and
\* again (a sync.RWMutex hands the lock to a writer that has waited).
Fairness ==
    \A p \in Callers :
        /\ WF_vars(CollectStep(p))
        /\ SF_vars(LockStep(p))
        /\ WF_vars(DescribeStep(p))

FairSpec == Spec /\ Fairness

\* One caller; every payload, recorded in lastData and lastPair.
NextData ==
    /\ \/ CollectCall(1)
       \/ Lock(1)
       \/ Get(1)
       \/ ScrapeStatusFail(1)
       \/ ScrapeStatusOk(1)
       \/ ScrapeDecodeFail(1)
       \/ CollectDown(1)
       \/ ScrapeOk(1, AllPayloads, TRUE)
       \/ CollectSend(1)
       \/ Unlock(1)
       \/ DescribeCall(1)
       \/ DescribeCurrent(1)
       \/ DescribeTotal(1)
       \/ DescribeReturn(1)
    /\ UNCHANGED <<collects, requests, snapshots, pending>>

SpecData == Init /\ [][NextData]_vars

\* The callers waiting in e.mutex.Lock().
Waiting == {q \in Callers : pc[q] = "lock"}

\* Concurrent callers and the responses of Outcomes, with the Collect calls
\* that passed the lock and the upstream requests counted, for at most
\* MaxCollects Collect calls.
NextCount ==
    \E p \in Callers :
        \/ /\ collects + Cardinality(Waiting) < MaxCollects
           /\ CollectCall(p)
           /\ UNCHANGED <<collects, requests, snapshots, pending>>
        \/ Lock(p) /\ collects' = collects + 1 /\ UNCHANGED <<requests, snapshots, pending>>
        \/ /\ Get(p) /\ resp'[p] \in Outcomes
           /\ requests' = requests + 1
           /\ UNCHANGED <<collects, snapshots, pending>>
        \/ /\ \/ ScrapeStatusFail(p)
              \/ ScrapeStatusOk(p)
              \/ ScrapeDecodeFail(p)
              \/ CollectDown(p)
              \/ ScrapeOk(p, MapPayloads, FALSE)
              \/ MapFault(p, MapPayloads)
              \/ CollectSend(p)
              \/ Unlock(p)
              \/ DescribeCall(p)
              \/ DescribeCurrent(p)
              \/ DescribeTotal(p)
              \/ DescribeReturn(p)
           /\ UNCHANGED <<collects, requests, snapshots, pending>>

SpecCount == Init /\ [][NextCount]_vars

\* A response that lets the scrape succeed.
Good(r) == statusError(r) = "nil" /\ r.json

\* One caller, with the payload of every successful scrape recorded; the
\* payloads carry the two maps; once MaxSnapshots scrapes have succeeded the
\* upstream only fails.
NextHistory ==
    /\ \/ /\ Get(1)
          /\ Len(snapshots) >= MaxSnapshots => ~Good(resp'[1])
          /\ UNCHANGED snapshots
       \/ /\ ScrapeOk(1, CountPayloads, TRUE)
          /\ snapshots' = Append(snapshots, lastData'[1])
       \/ /\ \/ CollectCall(1)
             \/ Lock(1)
             \/ ScrapeStatusFail(1)
             \/ ScrapeStatusOk(1)
             \/ ScrapeDecodeFail(1)
             \/ CollectDown(1)
             \/ CollectSend(1)
             \/ Unlock(1)
             \/ DescribeCall(1)
             \/ DescribeCurrent(1)
             \/ DescribeTotal(1)
             \/ DescribeReturn(1)
          /\ UNCHANGED snapshots
    /\ UNCHANGED <<collects, requests, pending>>

SpecHistory == Init /\ [][NextHistory]_vars

\* The value the gauge behind a sent metric holds now.
Value(item) ==
    IF item.name = "up" THEN nomad_up
    ELSE IF item.name = "uptime" THEN metric_uptime
    ELSE IF item.name = "request_response_time_total"
         THEN metric_request_response_time_total
    ELSE IF item.name = "request_response_time_avg"
         THEN metric_request_response_time_avg
    ELSE IF item.name = "request_count_current"
         THEN metric_request_status_count_current[item.statusCode].val
    ELSE metric_request_status_count_total[item.statusCode].val

\* The registry that called Collect writes out the metrics it received: a
\* metric is the gauge itself, whose value is read now.
AdapterWrite(p) ==
    /\ ~crashed
    /\ pending[p] # {}
    /\ pending' = [pending EXCEPT ![p] = {}]
    /\ UNCHANGED <<metrics, newGaugeCalls, mutex, pc, resp, scrapeErr, ch, iter,
                   pre, lastScrape, lastData, lastPair, crashed, collects,
                   requests, snapshots>>

\* Concurrent polls: each caller is a registry that calls Collect and, once
\* Collect has returned, writes out the metrics it was sent before it polls
\* again.
NextGather ==
    /\ \E p \in Callers :
           \/ pending[p] = {} /\ CollectCall(p) /\ UNCHANGED pending
           \/ /\ \/ Lock(p)
                 \/ Get(p) /\ resp'[p] \in Outcomes
                 \/ ScrapeStatusFail(p)
                 \/ ScrapeStatusOk(p)
                 \/ ScrapeDecodeFail(p)
                 \/ CollectDown(p)
                 \/ ScrapeOk(p, MapPayloads, FALSE)
                 \/ CollectSend(p)
              /\ UNCHANGED pending
           \/ Unlock(p) /\ pending' = [pending EXCEPT ![p] = ch[p].items]
           \/ AdapterWrite(p)
    /\ UNCHANGED <<collects, requests, snapshots>>

SpecGather == Init /\ [][NextGather]_vars

(* ------------------------------ claims -------------------------------- *)

\* The callers between e.mutex.Lock() and the deferred Unlock.
InCollect(p) == pc[p] \in {"get", "status", "decode", "failed", "scraped", "ret"}

\* C1: when the scrape of a Collect has failed, whatever the kind of failure,
\* every instrument other than the up/down flag is as the scrape found it (same
\* keys, same gauges, same values), and once Collect has handled the error the
\* up/down flag is 0.
C1_FailedScrapeKeepsInstruments ==
    \A p \in Callers :
        (pc[p] \in {"failed", "ret"}
            /\ scrapeErr[p] \in {"Transport", "BadStatus", "Decode"}) =>
            /\ metric_uptime = pre[p].uptime
            /\ metric_request_response_time_total = pre[p].rt_total
            /\ metric_request_response_time_avg = pre[p].rt_avg
            /\ metric_request_status_count_current = pre[p].current
            /\ metric_request_status_count_total = pre[p].total
            /\ (pc[p] = "ret" => nomad_up = 0)

\* A Collect returns after a Decode failure that found the flag up, a nonzero
\* uptime, a nonzero current count and a cumulative count.
C1_Witness ==
    /\ pc[1] = "ret"
    /\ scrapeErr[1] = "Decode"
    /\ pre[1].up = 1
    /\ nomad_up = 0
    /\ metric_uptime = 1
    /\ \E c \in DOMAIN metric_request_status_count_current :
          metric_request_status_count_current[c].val = 1
    /\ metric_request_status_count_total # <<>>

\* The step in which the scrape of p has decoded its payload and set the
\* instruments.
ScrapeSucceeds(p) == pc[p] = "decode" /\ pc'[p] = "scraped"

\* C2: of two successful scrapes in a row, the second resets to 0 the current
\* count of every code that the status_code_count of the first had and its own
\* has not, and leaves the cumulative count of every code that the
\* total_status_code_count of the first had and its own has not at the value the
\* first gave it. Each family is taken with its own code sets.
C2_DisjointCodes ==
    [][\A p \in Callers :
        (ScrapeSucceeds(p) /\ lastScrape = "ok") =>
            LET prev == lastData[1]
                data == lastData'[1]
            IN /\ (DOMAIN prev.StatusCodeCount \cap DOMAIN data.StatusCodeCount = {}
                    => \A c \in DOMAIN prev.StatusCodeCount :
                        /\ c \in DOMAIN metric_request_status_count_current'
                        /\ metric_request_status_count_current'[c].val = 0)
               /\ (DOMAIN prev.TotalStatusCodeCount
                        \cap DOMAIN data.TotalStatusCodeCount = {}
                    => \A c \in DOMAIN prev.TotalStatusCodeCount :
                        /\ c \in DOMAIN metric_request_status_count_total'
                        /\ metric_request_status_count_total'[c].val
                              = prev.TotalStatusCodeCount[c]
                        /\ metric_request_status_count_total'[c]
                              = metric_request_status_count_total[c])]_vars

\* A scrape has succeeded right after one whose two maps were not empty and
\* shared no code with its own.
C2_Witness ==
    /\ pc[1] = "scraped"
    /\ lastPair = "disjoint"
    /\ \E c \in DOMAIN metric_request_status_count_current :
          /\ c \notin DOMAIN lastData[1].StatusCodeCount
          /\ metric_request_status_count_current[c].val = 0
    /\ \E c \in DOMAIN metric_request_status_count_total :
          c \notin DOMAIN lastData[1].TotalStatusCodeCount

\* C3: after a successful scrape, while its Collect still holds the mutex, the
\* up/down flag is 1 and the three singleton gauges hold the payload's
\* uptime_sec, total_response_time_sec and average_response_time_sec.
C3_SingletonsFromPayload ==
    \A p \in Callers :
        (pc[p] \in {"scraped", "ret"} /\ scrapeErr[p] = "nil") =>
            /\ lastData # <<>>
            /\ nomad_up = 1
            /\ metric_uptime = lastData[1].UpTimeSec
            /\ metric_request_response_time_total = lastData[1].TotalResponseTimeSec
            /\ metric_request_response_time_avg = lastData[1].AverageResponseTimeSec

\* A scrape with uptime 0, total response time 1 and average response time 0
\* has succeeded after a successful scrape of another payload.
C3_Witness ==
    /\ pc[1] = "scraped"
    /\ lastPair = "other"
    /\ metric_uptime = 0
    /\ metric_request_response_time_total = 1
    /\ metric_request_response_time_avg = 0

\* C4: when Collect returns after a failed scrape it has sent one metric, the
\* up/down flag at 0; after a successful scrape it has sent the up/down flag
\* at 1, the three other singletons and every gauge of the two maps, each once.
C4_CollectSends ==
    \A p \in Callers :
        pc[p] = "ret" =>
            IF scrapeErr[p] # "nil"
            THEN ch[p] = [n |-> 1,
                          items |-> {[name |-> "up", statusCode |-> "", id |-> 0,
                                      val |-> 0]}]
            ELSE /\ ch[p].items =
                      {[name |-> "up", statusCode |-> "", id |-> 0, val |-> 1],
                       [name |-> "uptime", statusCode |-> "", id |-> 0,
                        val |-> metric_uptime],
                       [name |-> "request_response_time_total", statusCode |-> "",
                        id |-> 0, val |-> metric_request_response_time_total],
                       [name |-> "request_response_time_avg", statusCode |-> "",
                        id |-> 0, val |-> metric_request_response_time_avg]}
                      \cup {[name |-> "request_count_current", statusCode |-> c,
                             id |-> metric_request_status_count_current[c].id,
                             val |-> metric_request_status_count_current[c].val] :
                              c \in DOMAIN metric_request_status_count_current}
                      \cup {[name |-> "request_count_total", statusCode |-> c,
                             id |-> metric_request_status_count_total[c].id,
                             val |-> metric_request_status_count_total[c].val] :
                              c \in DOMAIN metric_request_status_count_total}
                 /\ ch[p].n = Cardinality(ch[p].items)
                 /\ ch[p].n = 4 + Cardinality(DOMAIN metric_request_status_count_current)
                                + Cardinality(DOMAIN metric_request_status_count_total)

\* A Collect returns after a failed scrape while the maps hold gauges: it has
\* sent one metric.
C4_Witness ==
    /\ pc[1] = "ret"
    /\ scrapeErr[1] = "BadStatus"
    /\ ch[1].n = 1
    /\ Cardinality(DOMAIN metric_request_status_count_current) = 2
    /\ metric_request_status_count_total # <<>>

\* C5: the up/down flag is 0 or 1; whenever nobody holds the mutex it is 1 if
\* the most recently completed scrape succeeded and 0 if it failed or if there
\* has been no scrape yet.
C5_UpFollowsLastScrape ==
    /\ nomad_up \in {0, 1}
    /\ (mutex = 0 /\ \A p \in Callers : ~InCollect(p)) =>
          (nomad_up = 1 <=> lastScrape = "ok")

\* Nobody holds the mutex, the last scrape failed and an earlier one had
\* succeeded: the flag went from 1 to 0.
C5_Witness ==
    /\ mutex = 0
    /\ lastScrape = "failed"
    /\ metric_request_status_count_current # <<>>
    /\ nomad_up = 0

\* C6: at most one caller is between Lock and Unlock, and it is the one the
\* mutex records.
C6_MutualExclusion ==
    \A p, q \in Callers :
        (InCollect(p) /\ InCollect(q)) => (p = q /\ mutex = p)

\* A caller waits at Lock while another has got its response and not yet set
\* the instruments.
C6_Witness ==
    \E p, q \in Callers : pc[p] = "decode" /\ pc[q] = "lock"

\* C7: a scrape inserts no key into a map while a Describe ranges over that
\* map.
C7_NoInsertDuringRange ==
    [][\A p, q \in Callers :
        ScrapeSucceeds(p) =>
            /\ ~(/\ pc[q] = "descCurrent"
                 /\ DOMAIN metric_request_status_count_current'
                       # DOMAIN metric_request_status_count_current)
            /\ ~(/\ pc[q] = "descTotal"
                 /\ DOMAIN metric_request_status_count_total'
                       # DOMAIN metric_request_status_count_total)]_vars

\* C8: a successful scrape that decodes the payload of the successful scrape
\* right before it changes no instrument: no value, no key, no gauge.
C8_Idempotent ==
    [][\A p \in Callers :
        (ScrapeSucceeds(p) /\ lastScrape = "ok" /\ lastData' = lastData) =>
            Instruments' = Instruments]_vars

\* A scrape has succeeded right after one of the same payload, whose maps are
\* not empty, with a code of an earlier payload at 0.
C8_Witness ==
    /\ pc[1] = "scraped"
    /\ lastPair = "same"
    /\ lastData[1].StatusCodeCount # <<>>
    /\ lastData[1].TotalStatusCodeCount # <<>>
    /\ \E c \in DOMAIN metric_request_status_count_current :
          metric_request_status_count_current[c].val = 0

\* C9: no step removes a key from either map or changes the gauge a key has.
C9_MapsOnlyGrow ==
    [][/\ \A c \in DOMAIN metric_request_status_count_current :
            /\ c \in DOMAIN metric_request_status_count_current'
            /\ metric_request_status_count_current'[c].id
                  = metric_request_status_count_current[c].id
       /\ \A c \in DOMAIN metric_request_status_count_total :
            /\ c \in DOMAIN metric_request_status_count_total'
            /\ metric_request_status_count_total'[c].id
                  = metric_request_status_count_total[c].id]_vars

\* Both maps hold both codes, one of them at 0 after a later scrape without
\* it; the last scrape failed and a Describe is about to return.
C9_Witness ==
    /\ DOMAIN metric_request_status_count_current = Codes
    /\ DOMAIN metric_request_status_count_total = Codes
    /\ \E c \in Codes : metric_request_status_count_current[c].val = 0
    /\ lastScrape = "failed"
    /\ \E p \in Callers : pc[p] = "descRet"

\* C10: no step of Describe changes an instrument, a map, the mutex or a
\* response. Describe first sends the four static descriptors, then for each
\* map one descriptor per key, which are the keys of the map when no key is
\* inserted during the loop (a key inserted during the loop may be missing);
\* with both maps empty it returns the four static descriptors.
C10_Describe ==
    [][\A p \in Callers :
        LET frame ==
                /\ Instruments' = Instruments
                /\ newGaugeCalls' = newGaugeCalls
                /\ mutex' = mutex
                /\ resp' = resp
                /\ lastScrape' = lastScrape
            static ==
                {[name |-> "uptime", statusCode |-> ""],
                 [name |-> "up", statusCode |-> ""],
                 [name |-> "request_response_time_total", statusCode |-> ""],
                 [name |-> "request_response_time_avg", statusCode |-> ""]}
            sent(name, m) ==
                LET K == {c \in DOMAIN m :
                            [name |-> name, statusCode |-> c] \in ch'[p].items}
                IN /\ iter[p] \subseteq K
                   /\ ch'[p].items =
                         ch[p].items \cup {[name |-> name, statusCode |-> c] : c \in K}
                   /\ ch'[p].n = ch[p].n + Cardinality(K)
        IN /\ (pc[p] = "idle" /\ pc'[p] = "descCurrent") =>
                frame /\ ch'[p] = [n |-> 4, items |-> static]
           /\ (pc[p] = "descCurrent" /\ pc'[p] = "descTotal") =>
                frame /\ sent("request_count_current",
                              metric_request_status_count_current)
           /\ (pc[p] = "descTotal" /\ pc'[p] = "descRet") =>
                /\ frame
                /\ sent("request_count_total", metric_request_status_count_total)
                /\ (/\ metric_request_status_count_current = <<>>
                    /\ metric_request_status_count_total = <<>>)
                      => ch'[p] = [n |-> 4, items |-> static]
           /\ (pc[p] = "descRet" /\ pc'[p] = "idle") => frame]_vars

\* A Describe is about to return seven descriptors: the four static ones, two
\* of the current-count map and one of the total-count map.
C10_Witness ==
    \E p \in Callers :
        /\ pc[p] = "descRet"
        /\ ch[p].n = 7
        /\ Cardinality(ch[p].items) = 7
        /\ Cardinality(DOMAIN metric_request_status_count_current) = 2
        /\ Cardinality(DOMAIN metric_request_status_count_total) = 1

\* C11: a scrape whose response has arrived fails with BadStatus exactly when
\* the status code is below 200 or above 299, whether the body is the expected
\* JSON or not, and that step changes no instrument; with a status code of
\* 200..299 it goes on to decode. A Decode failure happens only to a response
\* with a status code of 200..299. When Collect has handled a BadStatus the
\* up/down flag is 0 and every other instrument is as the scrape found it.
C11_BadStatusBeforeDecode ==
    [][\A p \in Callers :
        LET code == resp[p].StatusCode
        IN /\ (pc[p] = "status" /\ pc'[p] # "status" /\ ~resp[p].err) =>
                /\ (pc'[p] = "failed" /\ scrapeErr'[p] = "BadStatus")
                      <=> (code < 200 \/ code > 299)
                /\ (pc'[p] = "decode" /\ scrapeErr'[p] = "nil")
                      <=> (code >= 200 /\ code <= 299)
                /\ Instruments' = Instruments
           /\ (pc'[p] = "failed" /\ scrapeErr'[p] = "Decode" /\ pc[p] # "failed") =>
                /\ pc[p] = "decode"
                /\ ~resp[p].err
                /\ code >= 200 /\ code <= 299
           /\ (pc[p] = "failed" /\ pc'[p] = "ret" /\ scrapeErr[p] = "BadStatus") =>
                /\ nomad_up' = 0
                /\ [Instruments' EXCEPT !.up = 0] = [pre[p] EXCEPT !.up = 0]]_vars

\* A scrape has failed with BadStatus on a 503 whose body is the expected JSON,
\* with the flag up, a nonzero uptime and gauges in both maps.
C11_Witness ==
    /\ pc[1] = "failed"
    /\ scrapeErr[1] = "BadStatus"
    /\ resp[1] = [err |-> FALSE, StatusCode |-> 503, json |-> TRUE]
    /\ nomad_up = 1
    /\ metric_uptime = 1
    /\ \E c \in DOMAIN metric_request_status_count_current :
          metric_request_status_count_current[c].val = 1
    /\ metric_request_status_count_total # <<>>

\* C12: the upstream requests issued are as many as the Collect calls that have
\* passed the lock, less the calls that have not yet issued theirs. A request
\* is only issued by the caller that holds the mutex, at the start of its
\* scrape; every scrape issues one, and a call comes to the start of a scrape
\* only from the lock, never again after a failure. No step of Describe issues
\* one.
C12_OneGetPerCollect ==
    [][/\ requests + Cardinality({p \in Callers : pc[p] = "get"}) = collects
       /\ requests' + Cardinality({p \in Callers : pc'[p] = "get"}) = collects'
       /\ requests' # requests =>
            /\ requests' = requests + 1
            /\ \E p \in Callers : mutex = p /\ pc[p] = "get" /\ pc'[p] = "status"
       /\ \A p \in Callers :
            /\ (pc[p] = "get" /\ pc'[p] # "get") =>
                  pc'[p] = "status" /\ requests' = requests + 1
            /\ (pc'[p] = "get" /\ pc[p] # "get") =>
                  pc[p] = "lock" /\ collects' = collects + 1
            /\ (pc[p] = "ret" /\ pc'[p] # "ret") => pc'[p] = "idle"
            /\ pc[p] \in {"descCurrent", "descTotal", "descRet"} =>
                  pc'[p] \notin {"get", "status"}]_vars

\* Two Collect calls have issued two requests: one scrape succeeded and the
\* next has failed, while another caller ran a Describe.
C12_Witness ==
    \E p, q \in Callers :
        /\ pc[p] = "ret"
        /\ scrapeErr[p] = "BadStatus"
        /\ metric_request_status_count_current # <<>>
        /\ pc[q] = "descRet"
        /\ collects = 2
        /\ requests = 2

\* C13: in every state the current count of every code that has a gauge is the
\* count the most recent successful snapshot gives that code, 0 if that
\* snapshot's status_code_count has not the code; the cumulative count of
\* every code that has a gauge is the count given by the most recent
\* successful snapshot whose total_status_code_count has the code. Failed
\* scrapes in between change neither.
C13_CountsFollowSnapshots ==
    LET n == Len(snapshots)
    IN /\ \A c \in DOMAIN metric_request_status_count_current :
            /\ n > 0
            /\ metric_request_status_count_current[c].val =
                  IF c \in DOMAIN snapshots[n].StatusCodeCount
                  THEN snapshots[n].StatusCodeCount[c] ELSE 0
       /\ \A c \in DOMAIN metric_request_status_count_total :
            \E i \in 1..n :
                /\ c \in DOMAIN snapshots[i].TotalStatusCodeCount
                /\ \A j \in (i + 1)..n :
                      c \notin DOMAIN snapshots[j].TotalStatusCodeCount
                /\ metric_request_status_count_total[c].val =
                      snapshots[i].TotalStatusCodeCount[c]

\* Two scrapes succeeded and a third has failed. The second snapshot dropped
\* "500" from both maps and changed the cumulative count of "200" from 1 to 2:
\* the current count of "500" is 0, its cumulative count is still 2 and the
\* cumulative count of "200" is 2.
C13_Witness ==
    /\ pc[1] = "ret"
    /\ scrapeErr[1] = "Transport"
    /\ Len(snapshots) = 2
    /\ snapshots[1].StatusCodeCount = [c \in {"200", "500"} |-> 1]
    /\ snapshots[1].TotalStatusCodeCount = [c \in {"200", "500"} |->
                                              IF c = "200" THEN 1 ELSE 2]
    /\ snapshots[2].StatusCodeCount = [c \in {"200"} |-> 1]
    /\ snapshots[2].TotalStatusCodeCount = [c \in {"200"} |-> 2]
    /\ metric_request_status_count_current["500"].val = 0
    /\ metric_request_status_count_total["500"].val = 2
    /\ metric_request_status_count_total["200"].val = 2

\* C14: a JSON object that lacks a field decodes without error, and the scrape
\* that decodes it succeeds. If the object may lack uptime_sec,
\* total_response_time_sec or average_response_time_sec (the object without
\* the field decodes to the payload of the scrape), the scrape sets the
\* field's gauge to 0; if it may lack status_code_count, the scrape sets every
\* current-count gauge to 0 and creates none; if it may lack
\* total_status_code_count, the scrape changes no cumulative-count gauge and
\* creates none.
C14_OmittedFieldsAreZero ==
    [][\A p \in Callers :
        ScrapeSucceeds(p) =>
            LET data == lastData'[1]
                Without(f) == [json |-> TRUE, fields |-> Fields \ {f}, vals |-> data]
                Omits(f) == Decode(Without(f)) = data
            IN /\ \A f \in Fields : decodeError(Without(f)) = "nil"
               /\ scrapeErr'[p] = "nil"
               /\ nomad_up' = 1
               /\ Omits("uptime_sec") => metric_uptime' = 0
               /\ Omits("total_response_time_sec") =>
                     metric_request_response_time_total' = 0
               /\ Omits("average_response_time_sec") =>
                     metric_request_response_time_avg' = 0
               /\ Omits("status_code_count") =>
                     /\ DOMAIN metric_request_status_count_current'
                           = DOMAIN metric_request_status_count_current
                     /\ \A c \in DOMAIN metric_request_status_count_current :
                           metric_request_status_count_current'[c] =
                             [id |-> metric_request_status_count_current[c].id,
                              val |-> 0]
                     /\ newGaugeCalls'.current = newGaugeCalls.current
               /\ Omits("total_status_code_count") =>
                     /\ metric_request_status_count_total'
                           = metric_request_status_count_total
                     /\ newGaugeCalls'.total = newGaugeCalls.total]_vars

\* A scrape has succeeded on an object with no field at all, after a successful
\* scrape of another payload: the singletons are 0, both current-count gauges
\* are there and read 0, and a cumulative-count gauge still reads 1.
C14_Witness ==
    /\ pc[1] = "scraped"
    /\ scrapeErr[1] = "nil"
    /\ lastPair = "other"
    /\ lastData[1] = ZeroHealth
    /\ nomad_up = 1
    /\ metric_uptime = 0
    /\ metric_request_response_time_total = 0
    /\ metric_request_response_time_avg = 0
    /\ DOMAIN metric_request_status_count_current = Codes
    /\ \A c \in Codes : metric_request_status_count_current[c].val = 0
    /\ \E c \in DOMAIN metric_request_status_count_total :
          metric_request_status_count_total[c].val = 1

\* C15: a caller that holds the mutex is in Collect, and under Fairness every
\* caller waiting in Lock gets the mutex and every Collect call returns.
C15_CollectCompletes ==
    /\ [](\A p \in Callers : mutex = p => InCollect(p))
    /\ \A p \in Callers :
          /\ (pc[p] = "lock") ~> (pc[p] = "get")
          /\ (pc[p] = "lock" \/ InCollect(p)) ~> (pc[p] = "idle")

\* C16: when the registry writes out the metrics a Collect sent it, every
\* gauge still holds the value it had when that Collect sent it.
C16_AdapterReadsOwnScrape ==
    [][\A p \in Callers :
        (pending[p] # {} /\ pending'[p] = {}) =>
            \A item \in pending[p] : Value(item) = item.val]_vars

\* C17: in every state the keys of the current-count map are the codes that
\* the status_code_count of some successful snapshot had, and the keys of the
\* cumulative-count map are the codes that the total_status_code_count of some
\* successful snapshot had; a successful scrape calls newGauge for a family
\* once for each code of that family's mapping that had no gauge, and for no
\* other code.
C17_FamiliesKeyedIndependently ==
    /\ [](/\ DOMAIN metric_request_status_count_current =
               UNION {DOMAIN snapshots[i].StatusCodeCount : i \in 1..Len(snapshots)}
          /\ DOMAIN metric_request_status_count_total =
               UNION {DOMAIN snapshots[i].TotalStatusCodeCount :
                        i \in 1..Len(snapshots)})
    /\ [][\A p \in Callers :
            ScrapeSucceeds(p) =>
                LET data == snapshots'[Len(snapshots')]
                    new(m, counts, c) ==
                        IF c \in DOMAIN counts /\ c \notin DOMAIN m THEN 1 ELSE 0
                IN \A c \in Codes :
                    /\ newGaugeCalls'.current[c] = newGaugeCalls.current[c]
                          + new(metric_request_status_count_current,
                                data.StatusCodeCount, c)
                    /\ newGaugeCalls'.total[c] = newGaugeCalls.total[c]
                          + new(metric_request_status_count_total,
                                data.TotalStatusCodeCount, c)]_vars

\* After a snapshot with "500" in status_code_count only and one with "200" in
\* total_status_code_count only, "500" has a current-count gauge and no
\* cumulative-count gauge, "200" a cumulative-count gauge and no current-count
\* gauge.
C17_Witness ==
    /\ pc[1] = "scraped"
    /\ Len(snapshots) = 2
    /\ DOMAIN snapshots[1].StatusCodeCount = {"500"}
    /\ DOMAIN snapshots[1].TotalStatusCodeCount = {}
    /\ DOMAIN snapshots[2].StatusCodeCount = {}
    /\ DOMAIN snapshots[2].TotalStatusCodeCount = {"200"}
    /\ DOMAIN metric_request_status_count_current = {"500"}
    /\ DOMAIN metric_request_status_count_total = {"200"}
    /\ newGaugeCalls.current = [c \in Codes |-> IF c = "500" THEN 1 ELSE 0]
    /\ newGaugeCalls.total = [c \in Codes |-> IF c = "200" THEN 1 ELSE 0]

====
